---- MODULE Spec2Model ----
(***************************************************************************)
(* Damping operators of geomagnetic_field_inversions                       *)
(* (damping_modules/damping.py): damp_matrix, integrator and damp_norm.    *)
(*                                                                         *)
(* The three functions are pure; a behaviour of the model is one call of   *)
(* one of them.  Init draws the function and its arguments, the actions    *)
(* are the entry code, one iteration of each loop, and the return.         *)
(*                                                                         *)
(* Numbers.  The code computes in floating point; the model computes the   *)
(* same expressions exactly, in fixed point: a B-spline sample, an         *)
(* overlap integral or a norm is held as an integer number of a fixed      *)
(* unit (see derivatives, QuadUnit and TRef below).  Rounding is not modelled.         *)
(* Arrays are functions on 0..n-1, so indices are those of the source.     *)
(***************************************************************************)
EXTENDS Integers, Sequences, FiniteSets, TLC

\* ---- bounds of the model ------------------------------------------------
MaxDegree == 1
MaxSplines == 5
MaxWeight == 2
MaxDdt == 3
MaxRows == 5

\* ---- program constant ---------------------------------------------------
spl_degree == 3

\* ---- input sets ---------------------------------------------------------
TStepSet == {1, 2}
DampFactors == {0, 1, 2}
\* nr_splines: a negative count, zero, counts too small for any overlap
\* (1..spl_degree) and counts with overlap.
NrSplinesSet == (-1)..MaxSplines
DdtSet == 0..MaxDdt
\* rows of a coefficient series handed to damp_norm, and its weight vectors
CoeffRows == {<<0, 0>>, <<1, -1>>, <<2, 1>>}
NormWeights == {<<1, 2>>, <<2, 0>>}

\* ---- arithmetic helpers -------------------------------------------------
Max(a, b) == IF a >= b THEN a ELSE b
Min(a, b) == IF a <= b THEN a ELSE b

RECURSIVE Pow(_, _)
Pow(b, e) == IF e <= 0 THEN 1 ELSE b * Pow(b, e - 1)

\* a tuple as a 0-based array
Arr(s) == [k \in 0..(Len(s) - 1) |-> s[k + 1]]

RECURSIVE SumOver(_, _, _)
\* sum of f[k] for k in lo..hi
SumOver(f, lo, hi) == IF lo > hi THEN 0 ELSE f[lo] + SumOver(f, lo + 1, hi)

\* Every t_step divides TRef, so 1/t_step is the integer TRef \div t_step in
\* units of 1/TRef.
TRef == CHOOSE m \in TStepSet : \A t \in TStepSet : m % t = 0
InvTStep(tstep) == TRef \div tstep

\* ---- external collaborators ---------------------------------------------
\* scipy.integrate.newton_cotes(rn): the closed Newton-Cotes weights of order
\* rn as numerators over [den]; orders 2, 4, 6 are the tabulated rules.  Order
\* 0 ends in math.log(0) (ValueError), a negative order indexes an empty
\* sample array (IndexError).
newton_cotes(rn) ==
  CASE rn = 2 -> [raised |-> "none", w |-> Arr(<<1, 4, 1>>), den |-> 3]
    [] rn = 4 -> [raised |-> "none", w |-> Arr(<<14, 64, 24, 64, 14>>), den |-> 45]
    [] rn = 6 -> [raised |-> "none",
                  w |-> Arr(<<41, 216, 27, 272, 27, 216, 41>>), den |-> 140]
    [] rn = 0 -> [raised |-> "ValueError", w |-> <<>>, den |-> 1]
    [] OTHER -> [raised |-> "IndexError", w |-> <<>>, den |-> 1]

\* bsplines.derivatives(t_step, nr_points, ddt): table[shift][point] of the
\* ddt-th time derivative of the four cubic B-spline pieces at nr_points
\* equally spaced points u = k/n of one knot interval (a single point is
\* u = 0).  An entry is the value times c * n^(3-ddt) * TRef^ddt, with c = 6, 2,
\* 1 for ddt = 0, 1, 2: an integer.
SplPiece(shift, k, n, d) ==
  CASE d = 0 ->
         (CASE shift = 0 -> k * k * k
            [] shift = 1 -> -3 * k * k * k + 3 * n * k * k + 3 * n * n * k + n * n * n
            [] shift = 2 -> 3 * k * k * k - 6 * n * k * k + 4 * n * n * n
            [] OTHER -> (n - k) * (n - k) * (n - k))
    [] d = 1 ->
         (CASE shift = 0 -> k * k
            [] shift = 1 -> -3 * k * k + 2 * n * k + n * n
            [] shift = 2 -> 3 * k * k - 4 * n * k
            [] OTHER -> -((n - k) * (n - k)))
    [] d = 2 ->
         (CASE shift = 0 -> k
            [] shift = 1 -> -3 * k + n
            [] shift = 2 -> 3 * k - 2 * n
            [] OTHER -> n - k)
    [] OTHER -> 0

derivatives(tstep, nr_points, d) ==
  LET n == IF nr_points = 1 THEN 1 ELSE nr_points - 1
  IN [shift \in 0..spl_degree |->
        [k \in 0..(nr_points - 1) |->
           SplPiece(shift, k, n, d) * Pow(InvTStep(tstep), d)]]

\* dampingtype(max_degree, damp_type, damp_dipole): one non-negative weight per
\* coefficient.  Its result is an input of the model (the variable profile),
\* drawn from this family: the uniform vectors and the ramps.
WeightVectors(nm) ==
  {[c \in 0..(nm - 1) |-> (a + b * c) % (MaxWeight + 1)] :
     a \in 0..MaxWeight, b \in 0..1}
dampingtype(prof) == prof

\* ---- integrator (damping.py 67-119) --------------------------------------
\* An overlap integral is held in units of 1/IntDen(ddt) (5040, 480, 96 for
\* ddt = 0, 1, 2): the weighted sum of sample products times t_step is an
\* exact multiple of QuadUnit(ddt).
QuadUnit(d) == CASE d = 0 -> 279936 [] d = 1 -> 1536 [] OTHER -> 4

\* integration boundaries with a term forgotten
IntegratorLow_NoSpl2(s1, s2) == Max(s1, spl_degree)
IntegratorHigh_NoEnd(s1, s2, n_spl) == Min(s1 + spl_degree, s2 + spl_degree)
IntegratorHigh_NoSpl2(s1, s2, n_spl) == Min(s1 + spl_degree, n_spl - 1)

\* integration boundaries
IntegratorLow(s1, s2) == Max(Max(s1, s2), spl_degree)
IntegratorHigh(s1, s2, n_spl) ==
  Min(Min(s1 + spl_degree, s2 + spl_degree), n_spl - 1)

\* numpy row indexing of an array of len rows: a negative index counts from
\* the end, an index outside -len..len-1 raises IndexError
PyIndexOk(idx, len) == idx >= -len /\ idx < len
PyIndex(idx, len) == IF idx < 0 THEN idx + len ELSE idx

\* iint_prod of one interval t: the Newton-Cotes sum over the sample points
IntervalProduct(newcot, spl, t, s1, s2, nc_order) ==
  LET row1 == spl[PyIndex(t - s1, spl_degree + 1)]
      row2 == spl[PyIndex(t - s2, spl_degree + 1)]
  IN SumOver([stp \in 0..nc_order |-> newcot[stp] * row1[stp] * row2[stp]],
             0, nc_order)

RECURSIVE IntegratorLoop(_, _, _, _)
\* the loop over t in range(low, high + 1); acc carries int_prod (value), the
\* intervals summed so far (ts) and the table rows read so far (rows)
IntegratorLoop(t, high, acc, c) ==
  IF t > high THEN acc
  ELSE IF ~(PyIndexOk(t - c.spl1, spl_degree + 1)
            /\ PyIndexOk(t - c.spl2, spl_degree + 1))
    THEN [acc EXCEPT !.raised = "IndexError",
                     !.rows = @ \cup {t - c.spl1, t - c.spl2}]
  ELSE IntegratorLoop(t + 1, high,
         [acc EXCEPT
            !.value = @ + (IntervalProduct(c.newcot, c.spl, t, c.spl1, c.spl2,
                                           c.nc_order) * c.t_step)
                          \div QuadUnit(c.ddt),
            !.ts = Append(@, t),
            !.rows = @ \cup {t - c.spl1, t - c.spl2}],
         c)

\* The call: what it raises, what it returns (value), and what it did.
integrator(s1, s2, n_spl, tstep, d) ==
  LET temp_degree == spl_degree - d
      nc_order == 2 * temp_degree
      nc == newton_cotes(nc_order)
      low == IntegratorLow(s1, s2)
      high == IntegratorHigh(s1, s2, n_spl)
      start == [raised |-> nc.raised, value |-> 0, ts |-> <<>>, rows |-> {},
                low |-> low, high |-> high]
  IN IF nc.raised # "none" THEN start
     ELSE IntegratorLoop(low, high, start,
            [spl1 |-> s1, spl2 |-> s2, t_step |-> tstep, ddt |-> d,
             nc_order |-> nc_order, newcot |-> nc.w,
             spl |-> derivatives(tstep, nc_order + 1, d)])

NoCall == [raised |-> "none", value |-> 0, ts |-> <<>>, rows |-> {},
           low |-> 0, high |-> 0]

\* ---- damp_matrix (damping.py 12-64) ---------------------------------------
NmTotal(maxdeg) == (maxdeg + 1) * (maxdeg + 1) - 1

\* np.zeros((dim, dim))
Zeros(dim) == [p \in (0..(dim - 1)) \X (0..(dim - 1)) |-> 0]

\* the inner loop running one pair too far
LoopStop_Wide(s1, n_spl) == Min(s1 + spl_degree + 2, n_spl)

\* inner loop: spl2 in range(max(0, spl1 - spl_degree),
\*                           min(spl1 + spl_degree + 1, nr_splines))
LoopStart(s1) == Max(0, s1 - spl_degree)
LoopStop(s1, n_spl) == Min(s1 + spl_degree + 1, n_spl)

\* slices one short of the block stride, so that neighbours share a row
BlockSlice_Overlap(spl, nm) == <<spl * (nm - 1), spl * (nm - 1) + nm>>

\* the slice spl * nm_total : (spl + 1) * nm_total, as <<first, end>>
BlockSlice(spl, nm) == <<spl * nm, (spl + 1) * nm>>

\* the test of line 51 dropped
DampingEnabled_Always(factor) == TRUE

\* line 51: damping is disabled by a zero factor
DampingEnabled(factor) == factor # 0

\* the block without the damping factor
BlockValue_NoFactor(factor, spl_integral, diag, nm) ==
  [p \in (0..(nm - 1)) \X (0..(nm - 1)) |->
     IF p[1] = p[2] THEN spl_integral * diag[p[1]] ELSE 0]

\* damp_factor * spl_integral * np.diag(damp_diag)
BlockValue(factor, spl_integral, diag, nm) ==
  [p \in (0..(nm - 1)) \X (0..(nm - 1)) |->
     IF p[1] = p[2] THEN factor * spl_integral * diag[p[1]] ELSE 0]

\* a slice lo:hi of an axis of length dim, as numpy clips it
SliceIdx(lo, hi, dim) == {a \in 0..(dim - 1) : lo <= a /\ a < hi}

\* matrix[r0:r1, c0:c1] = B
WriteBlock(m, dim, r0, r1, c0, c1, B) ==
  [p \in (0..(dim - 1)) \X (0..(dim - 1)) |->
     IF r0 <= p[1] /\ p[1] < r1 /\ c0 <= p[2] /\ p[2] < c1
       THEN B[p[1] - r0, p[2] - c0]
       ELSE m[p]]

\* the pairs (spl1, spl2) the nested loop visits
LoopPairs(n_spl) ==
  {p \in (0..(n_spl - 1)) \X (0..(n_spl - 1)) :
     LoopStart(p[1]) <= p[2] /\ p[2] < LoopStop(p[1], n_spl)}

\* ---- damp_norm (damping.py 122-157) ---------------------------------------
\* np.vstack((np.zeros((spl_degree, len(coeff[0]))), coeff)): a new array
VStackZeros(cf) ==
  [r \in 0..(Len(cf) + spl_degree - 1) |->
     IF r < spl_degree THEN [c \in 0..(Len(cf[1]) - 1) |-> 0]
     ELSE Arr(cf[r - spl_degree + 1])]

\* the rows of coeffsp[t : t + (spl_degree + 1)], as numpy clips the slice
NormWindow(t, nrows) == {r \in 0..(nrows - 1) : t <= r /\ r < t + spl_degree + 1}

\* np.matmul(spl, coeffsp[t:t+4]) for a full window: one value per column
GSpl(stencil, padded, t, ncols) ==
  [c \in 0..(ncols - 1) |->
     SumOver([s \in 0..spl_degree |-> stencil[s] * padded[t + s][c]],
             0, spl_degree)]

\* np.dot(damp_fac, g_spl**2)
DotSquares(fac, g, ncols) ==
  SumOver([c \in 0..(ncols - 1) |-> fac[c] * g[c] * g[c]], 0, ncols - 1)

\* norm[spl_degree - 1:] / t_step: one padding artefact kept
NormReturn_Short(nrm, len, tstep) ==
  [k \in 0..(len - spl_degree) |-> nrm[k + spl_degree - 1] * InvTStep(tstep)]

\* norm[spl_degree:] / t_step, the quotient in units of 1/TRef
NormReturn(nrm, len, tstep) ==
  [k \in 0..(len - spl_degree - 1) |-> nrm[k + spl_degree] * InvTStep(tstep)]

\* ---- state ----------------------------------------------------------------
VARIABLES
  fn,          \* the function called: "damp_matrix", "integrator", "damp_norm"
  pc,          \* "entry", "loop", "ret", "done" (returned), "raised"
  raised,      \* the exception that ended the call, or "none"
  max_degree, nr_splines, t_step, damp_factor, ddt,   \* arguments
  profile,     \* what dampingtype returns for the damp_type, damp_dipole given
  matrix,      \* damp_matrix: matrix
  damp_diag,   \* damp_matrix: damp_diag
  spl1, spl2,  \* damp_matrix: loop variables; integrator: arguments
  ires,        \* the last integrator call: result and what it read
  slice,       \* damp_matrix: the last slice assigned, <<r0, r1, c0, c1>>
  writes,      \* damp_matrix: number of assignments to each block
  calls,       \* damp_matrix: calls made to dampingtype and to integrator
  pending,     \* parallel assembly: the block tasks not yet run
  damp_fac, coeff,   \* damp_norm: arguments
  coeffsp, norm, nt, \* damp_norm: padded series, norm, loop variable t
  window,      \* damp_norm: the rows of the last window read
  out          \* damp_norm: the value returned

vars == <<fn, pc, raised, max_degree, nr_splines, t_step, damp_factor, ddt,
          profile, matrix, damp_diag, spl1, spl2, ires, slice, writes, calls,
          pending, damp_fac, coeff, coeffsp, norm, nt, window, out>>

matrixVars == <<matrix, damp_diag, slice, writes, calls, pending>>
normVars == <<damp_fac, coeff, coeffsp, norm, nt, window, out>>
argVars == <<fn, max_degree, nr_splines, t_step, damp_factor, ddt, profile>>

NoCalls == [dampingtype |-> 0, integrator |-> 0]

\* the variables a call does not use
IdleMatrix ==
  /\ matrix = <<>> /\ damp_diag = <<>> /\ slice = <<>> /\ writes = <<>>
  /\ calls = NoCalls /\ pending = {}
IdleNorm ==
  /\ damp_fac = <<>> /\ coeff = <<>> /\ coeffsp = <<>> /\ norm = <<>>
  /\ nt = 0 /\ window = {} /\ out = <<>>

\* a coefficient series of T rows
Series(T) == [1..T -> CoeffRows]

InitCommon == pc = "entry" /\ raised = "none" /\ ires = NoCall

InitDampMatrix ==
  /\ fn \in {"damp_matrix"}
  /\ max_degree \in 1..MaxDegree
  /\ nr_splines \in NrSplinesSet
  /\ t_step \in TStepSet
  /\ damp_factor \in DampFactors
  /\ ddt \in DdtSet
  /\ profile \in WeightVectors(NmTotal(max_degree))
  /\ spl1 = 0 /\ spl2 = 0
  /\ IdleMatrix /\ IdleNorm

InitIntegrator ==
  /\ fn = "integrator"
  /\ max_degree = 0 /\ damp_factor = 0 /\ profile = <<>>
  /\ nr_splines \in 1..MaxSplines
  /\ spl1 \in 0..(nr_splines - 1)
  /\ spl2 \in 0..(nr_splines - 1)
  /\ t_step \in TStepSet
  /\ ddt \in DdtSet
  /\ IdleMatrix /\ IdleNorm

InitDampNorm ==
  /\ fn = "damp_norm"
  /\ max_degree = 0 /\ damp_factor = 0 /\ profile = <<>> /\ nr_splines = 0
  /\ spl1 = 0 /\ spl2 = 0
  /\ t_step \in TStepSet
  /\ ddt \in 0..(spl_degree - 1)
  /\ damp_fac \in {Arr(w) : w \in NormWeights}
  /\ \E T \in 1..MaxRows : coeff \in Series(T)
  /\ matrix = <<>> /\ damp_diag = <<>> /\ slice = <<>> /\ writes = <<>>
  /\ calls = NoCalls /\ pending = {}
  /\ coeffsp = <<>> /\ norm = <<>> /\ nt = 0 /\ window = {} /\ out = <<>>

Init == InitCommon /\ (InitDampMatrix \/ InitIntegrator \/ InitDampNorm)

\* ---- damp_matrix: actions -------------------------------------------------
\* lines 47-54: allocate, and unless damping is disabled get the weights
DampEnter ==
  /\ fn = "damp_matrix" /\ pc = "entry"
  /\ LET dim == NmTotal(max_degree) * nr_splines
     IN IF dim < 0
          THEN \* np.zeros: negative dimensions are not allowed
               /\ pc' = "raised" /\ raised' = "ValueError"
               /\ UNCHANGED <<matrix, damp_diag, writes, calls>>
          ELSE /\ matrix' = Zeros(dim)
               /\ writes' = [p \in (0..(nr_splines - 1)) \X (0..(nr_splines - 1)) |-> 0]
               /\ raised' = "none"
               /\ IF DampingEnabled(damp_factor)
                    THEN /\ damp_diag' = dampingtype(profile)
                         /\ calls' = [calls EXCEPT !.dampingtype = @ + 1]
                         /\ pc' = "loop"
                    ELSE /\ damp_diag' = <<>>
                         /\ calls' = calls
                         /\ pc' = "ret"
  /\ spl1' = 0 /\ spl2' = LoopStart(0)
  /\ UNCHANGED <<argVars, ires, slice, pending, normVars>>

\* lines 56-63: one iteration of the inner loop, then the loop bookkeeping
DampBlock ==
  /\ fn = "damp_matrix" /\ pc = "loop" /\ spl1 < nr_splines
  /\ LET nm == NmTotal(max_degree)
         dim == nm * nr_splines
         r == integrator(spl1, spl2, nr_splines, t_step, ddt)
         r0 == BlockSlice(spl1, nm)[1]
         r1 == BlockSlice(spl1, nm)[2]
         c0 == BlockSlice(spl2, nm)[1]
         c1 == BlockSlice(spl2, nm)[2]
         fits == /\ Cardinality(SliceIdx(r0, r1, dim)) = nm
                 /\ Cardinality(SliceIdx(c0, c1, dim)) = nm
     IN /\ ires' = r
        /\ calls' = [calls EXCEPT !.integrator = @ + 1]
        /\ IF r.raised # "none"
             THEN /\ pc' = "raised" /\ raised' = r.raised
                  /\ UNCHANGED <<matrix, slice, writes, spl1, spl2>>
           ELSE IF ~fits
             THEN \* the block cannot be broadcast into a shorter slice
                  /\ pc' = "raised" /\ raised' = "ValueError"
                  /\ slice' = <<r0, r1, c0, c1>>
                  /\ UNCHANGED <<matrix, writes, spl1, spl2>>
           ELSE /\ matrix' = WriteBlock(matrix, dim, r0, r1, c0, c1,
                                         BlockValue(damp_factor, r.value, damp_diag, nm))
                /\ slice' = <<r0, r1, c0, c1>>
                /\ writes' = [writes EXCEPT ![<<spl1, spl2>>] = @ + 1]
                /\ IF spl2 + 1 < LoopStop(spl1, nr_splines)
                     THEN spl2' = spl2 + 1 /\ spl1' = spl1
                     ELSE spl1' = spl1 + 1 /\ spl2' = LoopStart(spl1 + 1)
                /\ UNCHANGED <<pc, raised>>
  /\ UNCHANGED <<argVars, damp_diag, pending, normVars>>

\* line 64
DampReturn ==
  /\ fn = "damp_matrix"
  /\ pc = "ret" \/ (pc = "loop" /\ spl1 >= nr_splines)
  /\ pc' = "done"
  /\ UNCHANGED <<argVars, raised, matrix, damp_diag, spl1, spl2, ires, slice,
                 writes, calls, pending, normVars>>

\* ---- integrator called on its own -----------------------------------------
IntegratorCall ==
  /\ fn = "integrator" /\ pc = "entry"
  /\ LET r == integrator(spl1, spl2, nr_splines, t_step, ddt)
     IN /\ ires' = r
        /\ raised' = r.raised
        /\ pc' = IF r.raised = "none" THEN "done" ELSE "raised"
  /\ UNCHANGED <<argVars, spl1, spl2, matrixVars, normVars>>

\* ---- damp_norm: actions ---------------------------------------------------
\* lines 146-151
NormEnter ==
  /\ fn = "damp_norm" /\ pc = "entry"
  /\ coeffsp' = VStackZeros(coeff)
  /\ norm' = [t \in 0..(Len(coeff) - 1) |-> 0]
  /\ nt' = 0
  /\ pc' = "loop"
  /\ UNCHANGED <<argVars, raised, spl1, spl2, ires, matrixVars, damp_fac, coeff,
                 window, out>>

\* lines 152-155: one iteration
NormStep ==
  /\ fn = "damp_norm" /\ pc = "loop" /\ nt < Len(coeff)
  /\ LET ncols == Len(coeff[1])
         w == NormWindow(nt, Len(coeff) + spl_degree)
     IN /\ window' = w
        /\ IF Cardinality(w) # spl_degree + 1
             THEN \* matmul of 4 stencil values with fewer rows
                  /\ pc' = "raised" /\ raised' = "ValueError"
                  /\ UNCHANGED <<norm, nt>>
             ELSE /\ norm' = [norm EXCEPT ![nt] =
                       DotSquares(damp_fac,
                                  GSpl([s \in 0..spl_degree |->
                                          derivatives(t_step, 1, ddt)[s][0]],
                                       coeffsp, nt, ncols),
                                  ncols)]
                  /\ nt' = nt + 1
                  /\ UNCHANGED <<pc, raised>>
  /\ UNCHANGED <<argVars, spl1, spl2, ires, matrixVars, damp_fac, coeff, coeffsp, out>>

\* line 157
NormDone ==
  /\ fn = "damp_norm" /\ pc = "loop" /\ nt >= Len(coeff)
  /\ out' = NormReturn(norm, Len(coeff), t_step)
  /\ pc' = "done"
  /\ UNCHANGED <<argVars, raised, spl1, spl2, ires, matrixVars, damp_fac, coeff,
                 coeffsp, norm, nt, window>>

Next ==
  \/ DampEnter
  \/ DampBlock
  \/ DampReturn
  \/ IntegratorCall
  \/ NormEnter
  \/ NormStep
  \/ NormDone

Spec == Init /\ [][Next]_vars

\* ---- damp_matrix with the block computations as concurrent tasks ----------
\* The sequential result: the nested loop of lines 54-63 run in its order.
RECURSIVE SeqLoop(_, _, _, _)
SeqLoop(m, s1, s2, a) ==
  IF s1 >= a.nr_splines THEN m
  ELSE LET rs == BlockSlice(s1, a.nm)
           cs == BlockSlice(s2, a.nm)
           v == integrator(s1, s2, a.nr_splines, a.t_step, a.ddt).value
           m2 == WriteBlock(m, a.nm * a.nr_splines, rs[1], rs[2], cs[1], cs[2],
                            BlockValue(a.damp_factor, v, a.damp_diag, a.nm))
       IN IF s2 + 1 < LoopStop(s1, a.nr_splines)
            THEN SeqLoop(m2, s1, s2 + 1, a)
            ELSE SeqLoop(m2, s1 + 1, LoopStart(s1 + 1), a)

SeqResult ==
  LET nm == NmTotal(max_degree)
  IN IF DampingEnabled(damp_factor)
       THEN SeqLoop(Zeros(nm * nr_splines), 0, LoopStart(0),
                    [nr_splines |-> nr_splines, nm |-> nm, t_step |-> t_step,
                     ddt |-> ddt, damp_factor |-> damp_factor,
                     damp_diag |-> dampingtype(profile)])
       ELSE Zeros(nm * nr_splines)

\* The subsets of the tasks are the states of the assembly, so the instances
\* are the smallest ones: up to spl_degree + 1 splines (the first count with
\* a non-empty overlap: all 16 pairs interact), three coefficients, ddt = 0.
ParInit ==
  /\ InitCommon
  /\ fn = "damp_matrix"
  /\ max_degree = 1
  /\ nr_splines \in 1..(spl_degree + 1)
  /\ t_step = 1
  /\ damp_factor = 2
  /\ ddt = 0
  /\ profile = [c \in 0..(NmTotal(max_degree) - 1) |-> 1 + (c % 2)]
  /\ spl1 = 0 /\ spl2 = 0
  /\ IdleMatrix /\ IdleNorm

\* lines 47-52, then one task per pair of the nested loop
ParEnter ==
  /\ fn = "damp_matrix" /\ pc = "entry"
  /\ matrix' = Zeros(NmTotal(max_degree) * nr_splines)
  /\ writes' = [p \in (0..(nr_splines - 1)) \X (0..(nr_splines - 1)) |-> 0]
  /\ damp_diag' = dampingtype(profile)
  /\ calls' = [calls EXCEPT !.dampingtype = @ + 1]
  /\ pending' = LoopPairs(nr_splines)
  /\ pc' = "par"
  /\ UNCHANGED <<argVars, raised, spl1, spl2, ires, slice, normVars>>

\* lines 59-63 for the pair p, at any time
ParTask(p) ==
  /\ fn = "damp_matrix" /\ pc = "par" /\ p \in pending
  /\ LET nm == NmTotal(max_degree)
         r == integrator(p[1], p[2], nr_splines, t_step, ddt)
         rs == BlockSlice(p[1], nm)
         cs == BlockSlice(p[2], nm)
     IN matrix' = WriteBlock(matrix, nm * nr_splines, rs[1], rs[2], cs[1], cs[2],
                             BlockValue(damp_factor, r.value, damp_diag, nm))
  /\ writes' = [writes EXCEPT ![p] = @ + 1]
  /\ calls' = [calls EXCEPT !.integrator = @ + 1]
  /\ pending' = pending \ {p}
  /\ UNCHANGED <<argVars, pc, raised, damp_diag, spl1, spl2, ires, slice, normVars>>

\* all tasks joined: return
ParJoin ==
  /\ fn = "damp_matrix" /\ pc = "par" /\ pending = {}
  /\ pc' = "done"
  /\ UNCHANGED <<argVars, raised, matrix, damp_diag, spl1, spl2, ires, slice,
                 writes, calls, pending, normVars>>

ParNext ==
  \/ ParEnter
  \/ \E p \in pending : ParTask(p)
  \/ ParJoin

SpecPar == ParInit /\ [][ParNext]_vars

\* ==== properties ==========================================================
nm_total == NmTotal(max_degree)
Dim == nm_total * nr_splines
Splines == 0..(nr_splines - 1)
Coeffs == 0..(nm_total - 1)
InBand(i, j) == i - j <= spl_degree /\ j - i <= spl_degree
DampReturned == fn = "damp_matrix" /\ pc = "done"

C2_Banded ==
  fn = "damp_matrix" /\ pc \in {"loop", "ret", "done", "raised"} /\ Dim >= 0 =>
    \A i, j \in Splines :
      ~InBand(i, j) =>
        /\ writes[i, j] = 0
        /\ \A c, d \in Coeffs : matrix[i * nm_total + c, j * nm_total + d] = 0

\* a returned, non-zero matrix that has blocks outside the band
C2_Witness ==
  /\ DampReturned /\ nr_splines > spl_degree + 1
  /\ \E a \in 0..(Dim - 1) : matrix[a, a] # 0
  /\ \E i, j \in Splines : ~InBand(i, j)

\* C3. With damp_factor # 0 every in-band block (i,j) of the returned matrix is
\* damp_factor * integrator(i,j,nr_splines,t_step,ddt) * diag(weights): entry
\* (i*nm_total+c, j*nm_total+c) is damp_factor * overlap * weight[c], entries
\* with c # d are zero; the weight vector returned is the weight profile's, of
\* length nm_total = (max_degree+1)^2 - 1.
C3_BlockValues ==
  DampReturned /\ damp_factor # 0 =>
    /\ damp_diag = profile
    /\ DOMAIN damp_diag = 0..((max_degree + 1) * (max_degree + 1) - 2)
    /\ \A i, j \in Splines :
         InBand(i, j) =>
           LET overlap == integrator(i, j, nr_splines, t_step, ddt).value
           IN \A c, d \in Coeffs :
                matrix[i * nm_total + c, j * nm_total + d] =
                  IF c = d THEN damp_factor * overlap * profile[c] ELSE 0

\* a returned matrix whose diagonal entries within one block differ
C3_Witness ==
  /\ DampReturned /\ damp_factor = 2 /\ nr_splines > spl_degree
  /\ \E a \in 0..(Dim - 2) :
       matrix[a, a] # 0 /\ matrix[a + 1, a + 1] # 0
       /\ matrix[a, a] # matrix[a + 1, a + 1]

\* the matrix is all zero, of dimension nm_total * nr_splines, the weight
\* vector empty, nothing was called and nothing raised
DisabledResult ==
  /\ pc \in {"ret", "done"} /\ raised = "none"
  /\ DOMAIN matrix = (0..(Dim - 1)) \X (0..(Dim - 1))
  /\ \A p \in DOMAIN matrix : matrix[p] = 0
  /\ damp_diag = <<>>
  /\ calls = NoCalls

\* C4, as claimed. damp_factor = 0 returns, for any other arguments, an
\* all-zero matrix of dimension nm_total * nr_splines and an empty weight
\* vector, calling neither the weight profile nor the integrator, no error.
C4_Original ==
  fn = "damp_matrix" /\ damp_factor = 0 /\ pc # "entry" => DisabledResult

\* C4, amended. The same whenever nm_total * nr_splines >= 0.
C4_DisabledSentinel ==
  fn = "damp_matrix" /\ damp_factor = 0 /\ pc # "entry" /\ Dim >= 0 =>
    DisabledResult

\* damping disabled with splines that do overlap and an unsupported ddt
C4_Witness ==
  /\ DampReturned /\ damp_factor = 0 /\ nr_splines > spl_degree
  /\ ddt = spl_degree

\* C5, as claimed. integrator with ddt outside {0,1,2} fails with
\* InvalidParameter at entry, before any interval is summed.
C5_InvalidDdt ==
  fn = "integrator" /\ ddt \notin 0..(spl_degree - 1) /\ pc # "entry" =>
    pc = "raised" /\ raised = "InvalidParameter" /\ ires.ts = <<>>

\* C6, as claimed. damp_matrix with damp_factor # 0 and nr_splines <= 0 or
\* nr_splines <= spl_degree fails with InvalidParameter and returns nothing.
C6_TooFewSplines ==
  fn = "damp_matrix" /\ damp_factor # 0 /\ nr_splines <= spl_degree =>
    /\ pc # "done"
    /\ pc = "raised" => raised = "InvalidParameter"

\* C7. For ddt in {0,1,2} and spl1, spl2 in [0, nr_splines), integrator sums
\* exactly the intervals low..high, low = max(spl1, spl2, 3),
\* high = min(spl1+3, spl2+3, nr_splines-1); when low > high (every call with
\* |spl1-spl2| > 3 included) it returns 0 and raises nothing.
C7_Intervals ==
  fn = "integrator" /\ ddt \in 0..(spl_degree - 1) /\ pc # "entry" =>
    LET low == Max(spl1, Max(spl2, spl_degree))
        high == Min(spl1 + spl_degree, Min(spl2 + spl_degree, nr_splines - 1))
        outOfBand == spl1 - spl2 > spl_degree \/ spl2 - spl1 > spl_degree
    IN /\ pc = "done" /\ raised = "none"
       /\ Len(ires.ts) = (IF low > high THEN 0 ELSE high - low + 1)
       /\ \A n \in 1..Len(ires.ts) : ires.ts[n] = low + n - 1
       /\ low > high => ires.value = 0
       /\ outOfBand => low > high

\* an out-of-band call that returned
C7_Witness ==
  /\ fn = "integrator" /\ pc = "done"
  /\ spl2 - spl1 > spl_degree /\ ires.value = 0 /\ ires.ts = <<>>

\* C8. For T >= 3 rows damp_norm returns T - 3 values in order; value k is
\* (1/t_step) * sum_c weight[c] * (sum_s stencil[s] * padded[k+3+s][c])^2 with
\* padded = 3 zero rows, then the series; padded[k+3+s] is the caller's row
\* k+s, so the value depends on caller rows k..k+3 only; and the caller's
\* series is never modified.
C8_NormState ==
  fn = "damp_norm" /\ pc = "done" /\ Len(coeff) >= spl_degree =>
    LET T == Len(coeff)
        stencil == [s \in 0..spl_degree |-> derivatives(t_step, 1, ddt)[s][0]]
        padded == [r \in 0..(T + spl_degree - 1) |->
                     IF r < spl_degree THEN <<0, 0>> ELSE coeff[r - spl_degree + 1]]
        g(k, c) == SumOver([s \in 0..spl_degree |->
                              stencil[s] * padded[k + spl_degree + s][c + 1]],
                           0, spl_degree)
        h(k, c) == SumOver([s \in 0..spl_degree |->
                              stencil[s] * coeff[k + s + 1][c + 1]],
                           0, spl_degree)
    IN /\ DOMAIN out = 0..(T - spl_degree - 1)
       /\ \A k \in DOMAIN out :
            /\ out[k] = InvTStep(t_step)
                          * SumOver([c \in 0..1 |-> damp_fac[c] * g(k, c) * g(k, c)],
                                    0, 1)
            /\ \A c \in 0..1 : g(k, c) = h(k, c)

C8_Norm == [](C8_NormState) /\ [][coeff' = coeff]_vars

\* a series of more than 4 rows whose last norm value is not zero
C8_Witness ==
  /\ fn = "damp_norm" /\ pc = "done" /\ Len(coeff) > spl_degree + 1
  /\ out[Len(coeff) - spl_degree - 1] # 0

\* the entries of block p
BlockRegion(p) ==
  LET rs == BlockSlice(p[1], nm_total)
      cs == BlockSlice(p[2], nm_total)
  IN (rs[1]..(rs[2] - 1)) \X (cs[1]..(cs[2] - 1))

\* C9. With the block computations of damp_matrix (damp_factor # 0) run as
\* tasks in any order: each in-band block is written exactly once, the regions
\* of distinct blocks do not overlap, every block written holds what its own
\* task computed whatever ran after it, and the matrix returned is the one the
\* sequential nested loop produces.
C9_AnyOrder ==
  fn = "damp_matrix" /\ pc \in {"par", "done"} =>
    LET tasks == LoopPairs(nr_splines)
    IN /\ \A p \in tasks : writes[p] = (IF p \in pending THEN 0 ELSE 1)
       /\ pending = tasks =>
            \A p, q \in tasks : p # q => BlockRegion(p) \cap BlockRegion(q) = {}
       /\ \A p \in tasks \ pending :
            LET v == damp_factor * integrator(p[1], p[2], nr_splines, t_step, ddt).value
            IN \A c, d \in Coeffs :
                 matrix[p[1] * nm_total + c, p[2] * nm_total + d] =
                   IF c = d THEN v * profile[c] ELSE 0
       /\ pc = "done" => matrix = SeqResult

\* all sixteen blocks written, the last of them the first of the loop
C9_Witness ==
  /\ fn = "damp_matrix" /\ pc = "par" /\ nr_splines = spl_degree + 1
  /\ pending = {<<0, 0>>}
  /\ matrix[nm_total, 0] # 0

\* C10. Index safety: every integrator call (on its own with spl1, spl2 in
\* [0, nr_splines), or made by damp_matrix) reads the sample table at offsets
\* t - spl1, t - spl2 in [0, 3] only; every slice damp_matrix assigns lies in
\* the matrix; every window damp_norm reads is rows t..t+3 of the padded series.
C10_IndexSafety ==
  /\ fn \in {"damp_matrix", "integrator"} => ires.rows \subseteq 0..spl_degree
  /\ (fn = "damp_matrix" /\ slice # <<>>) =>
       /\ 0 <= slice[1] /\ slice[2] <= Dim /\ slice[2] - slice[1] = nm_total
       /\ 0 <= slice[3] /\ slice[4] <= Dim /\ slice[4] - slice[3] = nm_total
  /\ fn = "damp_norm" =>
       /\ window \subseteq 0..(Len(coeff) + spl_degree - 1)
       /\ window # {} => window = (nt - 1)..(nt - 1 + spl_degree)
       /\ raised = "none"

\* a call by damp_matrix that read both ends of the table
C10_Witness ==
  /\ fn = "damp_matrix" /\ pc = "loop"
  /\ ires.rows = {0, spl_degree}
  /\ slice # <<>> /\ slice[2] = Dim

====
